---- MODULE Spec2Model ----
(***************************************************************************)
(* reposync (src/main.go): main() loads the job list, validates each job   *)
(* and starts its mirror loop; every mirror loop clones, sets the remote   *)
(* and then pulls / compares / pushes for ever, publishing its status; the *)
(* /status handler reads the statuses of all jobs.                         *)
(*                                                                         *)
(* Strings are sequences of one-character strings, "" is << >>.            *)
(* Time is kept relative: a status carries the age of its statusTime, a    *)
(* sleep and the rate limiter carry the time left.  A behaviour advances   *)
(* its clock in steps of one quantum, chosen at the start.                 *)
(***************************************************************************)
EXTENDS Naturals, Sequences, FiniteSets, TLC

VARIABLES
    quantum,        \* environment: the clock step of this behaviour (seconds)
    faults,         \* environment: external operations may still fail
    budget,         \* environment: external operations that still return
    verbose,        \* environment: git prints the URLs it works on
    env,            \* environment of the process: REPOS, FROM_REPO, TO_REPO
    jobs,           \* var jobs []*job: the ID, From, To of every job
    mainpc,         \* main(): "load", "validate", "serve", or "fatal" (exited)
    mainI,          \* main(): index of the range loop over jobs
    pc,             \* per job: position of its mirror goroutine
    mu,             \* per job: holder of j.mu
    statusOK,       \* per job: j.statusOK
    statusMessage,  \* per job: j.statusMessage
    statusAge,      \* per job: time.Now() - j.statusTime, saturating
    call,           \* per job: arguments of the status call in progress
    sha,            \* per job: sha of the current iteration
    oldSHA,         \* per job: oldSHA
    sleep,          \* per job: time left of the time.Sleep in progress
    limWait,        \* per job: time until the limiter holds a token
    fs,             \* working directories, by name
    log,            \* the log records written by the latest logging step
    req,            \* the /status request in progress
    hist            \* per job: history of the loop, for the properties

vars == <<quantum, faults, budget, verbose, env, jobs, mainpc, mainI, pc, mu, statusOK,
          statusMessage, statusAge, call, sha, oldSHA, sleep, limWait, fs,
          log, req, hist>>

----------------------------------------------------------------------------
(* Bounds of the model *)

MaxJobs == 2        \* longest configured job list
MaxFails == 2       \* failures the environment injects into one job
MaxOps == 1         \* external operations that return, where they are bounded
MaxStr == 2         \* longest From / To of the redaction inputs
MaxOut == 3         \* longest supplementary value of the redaction inputs

(* Program constants, in seconds *)

CloneRetryDelay == 10
RemoteRetryDelay == 1
RateInterval == 120
StaleAfter == 900

----------------------------------------------------------------------------
(* Strings *)

Min(a, b) == IF a < b THEN a ELSE b

Monus(a, b) == IF a > b THEN a - b ELSE 0

HasPrefixAt(s, i, p) ==
    /\ i + Len(p) - 1 <= Len(s)
    /\ \A k \in 1..Len(p) : s[i + k - 1] = p[k]

HasPrefix(s, p) == HasPrefixAt(s, 1, p)

Contains(s, p) == \E i \in 1..(Len(s) + 1) : HasPrefixAt(s, i, p)

NL == "\n"

MetadataPrefix == <<"m", "e", "t", "a", "d", "a", "t", "a", ":">>
RedactedFrom == <<"<", "R", "E", "D", "A", "C", "T", "E", "D", " ", "(", "F", "R", "O", "M", ")", ">">>
RedactedTo == <<"<", "R", "E", "D", "A", "C", "T", "E", "D", " ", "(", "T", "O", ")", ">">>
PrefixOK == <<"O", "K", ":", " ">>
PrefixFail == <<"F", "A", "I", "L", ":", " ">>
DirPrefix == <<"r", "e", "p", "o", "-">>
DefaultID == <<"d", "e", "f", "a", "u", "l", "t">>

MsgCloning == <<"C", "l", "o", "n", "i", "n", "g">>
MsgCloned == <<"C", "l", "o", "n", "e", "d">>
MsgSettingRemote == <<"S", "e", "t", "t", "i", "n", "g", " ", "r", "e", "m", "o", "t", "e">>
MsgAddedRemote == <<"A", "d", "d", "e", "d", " ", "r", "e", "m", "o", "t", "e">>
MsgAddingRemote == <<"A", "d", "d", "i", "n", "g", " ", "r", "e", "m", "o", "t", "e">>
MsgPull == <<"P", "u", "l", "l">>
MsgParseHead == <<"p", "a", "r", "s", "e", " ", "H", "E", "A", "D">>
MsgNothing == <<"S", "y", "n", "c", "e", "d", " ", "-", " ", "n", "o", "t", "h", "i", "n", "g", " ", "t", "o", " ", "p", "u", "s", "h", ":", " ">>
MsgPush == <<"P", "u", "s", "h">>
MsgPushTags == <<"P", "u", "s", "h", " ", "t", "a", "g", "s">>
MsgPushed == <<"S", "y", "n", "c", "e", "d", " ", "-", " ", "p", "u", "s", "h", "e", "d">>
LogPulling == <<"P", "u", "l", "l", "i", "n", "g">>
LogPulled == <<"P", "u", "l", "l", "e", "d", ":", " ">>
LogPushing == <<"P", "u", "s", "h", "i", "n", "g">>
LogPushingTags == <<"P", "u", "s", "h", "i", "n", "g", " ", "t", "a", "g", "s">>
ErrExit == <<"e", "x", "i", "t", " ", "s", "t", "a", "t", "u", "s", " ", "1">>
ErrOpen == <<"n", "o", " ", "s", "u", "c", "h", " ", "f", "i", "l", "e">>

(* A text in the making is a sequence of cells: the byte c and where it    *)
(* comes from, d = TRUE for the label and the supplementary values,        *)
(* d = FALSE for what the program itself adds (placeholders, prefixes).    *)
(* In each of these x stands for the argument, bound as a value.           *)
Cells(s, d) ==
    CHOOSE r \in {[i \in 1..Len(x) |-> [c |-> x[i], d |-> d]] : x \in {s}} : TRUE

Bytes(t) == CHOOSE r \in {[i \in 1..Len(x) |-> x[i].c] : x \in {t}} : TRUE

Origin(t) == CHOOSE r \in {[i \in 1..Len(x) |-> x[i].d] : x \in {t}} : TRUE

(* bytes.Replace(t, old, new, -1): the leftmost non-overlapping matches of *)
(* old; an empty old matches before every byte and at the end.             *)

(* Where old matches in b at or after i. *)
Matches(b, i, old) == {k \in i..Len(b) : HasPrefixAt(b, k, old)}

(* The scan from byte i on: up to the first match, new, and the scan from  *)
(* behind that match; m is bound to where the first match starts.          *)
RECURSIVE ReplaceFrom(_, _, _, _, _)
ReplaceFrom(t, b, i, old, new) ==
    IF Matches(b, i, old) = {} THEN SubSeq(t, i, Len(t))
    ELSE CHOOSE r \in
           {SubSeq(t, i, m - 1) \o new \o ReplaceFrom(t, b, m + Len(old), old, new) :
              m \in {k \in Matches(b, i, old) :
                       \A l \in Matches(b, i, old) : k <= l}} : TRUE

(* new before every byte of t and after the last one. *)
Interleave(t, new) ==
    [p \in 1..((Len(t) + 1) * Len(new) + Len(t)) |->
        IF (p - 1) % (Len(new) + 1) < Len(new)
        THEN new[((p - 1) % (Len(new) + 1)) + 1]
        ELSE t[((p - 1) \div (Len(new) + 1)) + 1]]

(* The arguments are bound as values before the scan: x, o and n stand for *)
(* t, old and new, and y for the bytes of t.                               *)
Replace(t, old, new) ==
    CHOOSE r \in
      {IF o = << >> THEN Interleave(x, n)
       ELSE CHOOSE q \in {ReplaceFrom(x, y, 1, o, n) : y \in {Bytes(x)}} : TRUE :
           x \in {t}, o \in {old}, n \in {new}} : TRUE

----------------------------------------------------------------------------
(* job.status: the log record *)

(* The text fmt writes for one supplementary value: %s of a []byte, %v of  *)
(* anything else (an error prints its message).                            *)
Render(vv) == vv.s

RECURSIVE RenderAll(_)
RenderAll(v) ==
    IF v = << >> THEN << >> ELSE Render(Head(v)) \o <<NL>> \o RenderAll(Tail(v))

Buffer(msg, v) == Cells(msg \o <<NL>> \o RenderAll(v), TRUE)

(* A faulty variant of Redact: the Replace of line 240 is missing.         *)
RedactFromOnly(b, from, to) == Replace(b, from, Cells(RedactedFrom, FALSE))

Redact(b, from, to) ==
    Replace(Replace(b, from, Cells(RedactedFrom, FALSE)), to, Cells(RedactedTo, FALSE))

StatusRecord(job, ok, msg, v) ==
    Cells(IF ok THEN PrefixOK ELSE PrefixFail, FALSE)
        \o Redact(Buffer(msg, v), job.From, job.To)

(* A log record: its text, the origin of each byte, the job that wrote it, *)
(* and whether it carries the output of a subprocess.                      *)
LogRec(j, t, cmd) ==
    CHOOSE r \in {[j |-> j, text |-> Bytes(x), data |-> Origin(x), cmd |-> cmd] :
                      x \in {t}} : TRUE

Plain(j, s, cmd) == LogRec(j, Cells(s, TRUE), cmd)

OutArg(out) == [t |-> "bytes", s |-> out]

ErrArg(e) == [t |-> "error", s |-> e]

HasOutput(v) == \E k \in 1..Len(v) : v[k].t = "bytes"

----------------------------------------------------------------------------
(* main *)

Job(id, from, to) == [ID |-> id, From |-> from, To |-> to]

Dir(job) == DirPrefix \o job.ID

Jobs == 1..Len(jobs)

Started(j) == j \in Jobs /\ pc[j] # "none"

Alive == mainpc # "fatal"

NoCall == [ok |-> TRUE, msg |-> << >>, v |-> << >>, ret |-> "none"]

NoHist == [fails |-> 0, clones |-> 0, cloneFails |-> 0, removes |-> 0,
           since |-> 0, entered |-> 0, pend |-> FALSE, phase |-> "none",
           pushes |-> 0, pushed |-> 0, retry |-> {},
           tokens |-> 0, quiet |-> RateInterval, last |-> "none",
           updated |-> FALSE,
           branch |-> [ok |-> FALSE, sha |-> << >>],
           tags |-> [ok |-> FALSE, sha |-> << >>]]

NoReq == [pc |-> "idle", i |-> 0, hdr |-> 0, bad |-> FALSE, nok |-> FALSE]

(* The zero value of a statusTime is older than any threshold. *)
Ancient == StaleAfter + 1

(* The job list is in place: every job a zero-valued struct but for its    *)
(* ID, From and To, no goroutine started.                                  *)
Loaded(list) ==
    /\ jobs' = list
    /\ mainpc' = "validate"
    /\ mainI' = 1
    /\ pc' = [j \in 1..Len(list) |-> "none"]
    /\ mu' = [j \in 1..Len(list) |-> "free"]
    /\ statusOK' = [j \in 1..Len(list) |-> FALSE]
    /\ statusMessage' = [j \in 1..Len(list) |-> << >>]
    /\ statusAge' = [j \in 1..Len(list) |-> Ancient]
    /\ call' = [j \in 1..Len(list) |-> NoCall]
    /\ sha' = [j \in 1..Len(list) |-> << >>]
    /\ oldSHA' = [j \in 1..Len(list) |-> << >>]
    /\ sleep' = [j \in 1..Len(list) |-> 0]
    /\ limWait' = [j \in 1..Len(list) |-> 0]
    /\ hist' = [j \in 1..Len(list) |-> NoHist]
    /\ fs' = [d \in {Dir(list[j]) : j \in 1..Len(list)} |-> "none"]

Fatal ==
    /\ mainpc' = "fatal"
    /\ UNCHANGED <<jobs, mainI, pc, mu, statusOK, statusMessage, statusAge,
                   call, sha, oldSHA, sleep, limWait, hist, fs>>

(* main, lines 43-60: REPOS (resolved and parsed), else the legacy pair.   *)
Load ==
    /\ mainpc = "load"
    /\ IF env.REPOS = "json" THEN Loaded(env.list)
       ELSE IF env.REPOS = "invalid" THEN Fatal
       ELSE IF env.FROM_REPO # << >> /\ env.TO_REPO # << >>
            THEN Loaded(<<Job(DefaultID, env.FROM_REPO, env.TO_REPO)>>)
            ELSE Fatal
    /\ UNCHANGED <<quantum, faults, budget, verbose, env, log, req>>

(* What the metadata server may answer for a key. *)
MetadataValues == {<< >>, <<"s">>}

(* reconcile(s): the results it may return; none when it exits.            *)
Reconcile(s) ==
    IF ~HasPrefix(s, MetadataPrefix) THEN {[err |-> FALSE, val |-> s]}
    ELSE {[err |-> TRUE, val |-> << >>]}
            \cup {[err |-> FALSE, val |-> x] : x \in MetadataValues}

(* One iteration of the loop of main, lines 62-74. *)
Validate ==
    /\ mainpc = "validate"
    /\ mainI <= Len(jobs)
    /\ LET j == jobs[mainI] IN
       IF j.ID = << >> \/ j.From = << >> \/ j.To = << >>
       THEN /\ Fatal
       ELSE \E f \in Reconcile(j.From), t \in Reconcile(j.To) :
              IF f.err \/ t.err
              THEN /\ Fatal
              ELSE /\ jobs' = [jobs EXCEPT ![mainI] = Job(j.ID, f.val, t.val)]
                   /\ statusOK' = [statusOK EXCEPT ![mainI] = TRUE]
                   /\ pc' = [pc EXCEPT ![mainI] = "start"]
                   /\ mainI' = mainI + 1
                   /\ UNCHANGED <<mainpc, mu, statusMessage, statusAge, call,
                                  sha, oldSHA, sleep, limWait, hist, fs>>
    /\ UNCHANGED <<quantum, faults, budget, verbose, env, log, req>>

(* main, lines 76-78: the loop is over, the handler is served. *)
Serve ==
    /\ mainpc = "validate"
    /\ mainI > Len(jobs)
    /\ mainpc' = "serve"
    /\ UNCHANGED <<quantum, faults, budget, verbose, env, jobs, mainI, pc, mu, statusOK,
                   statusMessage, statusAge, call, sha, oldSHA, sleep, limWait,
                   fs, log, req, hist>>

----------------------------------------------------------------------------
(* job.mirror *)

(* What the environment may do to an external operation of job j: it may  *)
(* never return (the budget of operations that return is used up), fail,   *)
(* or succeed.                                                             *)
Unbounded == MaxOps + 1

Returns ==
    /\ budget > 0
    /\ budget' = IF budget = Unbounded THEN budget ELSE budget - 1

CanFail(j) == faults /\ hist[j].fails < MaxFails

(* The combined output a git command may print. *)
Outputs(j) == IF verbose THEN {<< >>, jobs[j].From, jobs[j].To} ELSE {<< >>}

(* The contents .git/refs/heads/master may have. *)
Heads == {<< >>, <<"1">>, <<"2">>}

Failure(out) == <<ErrArg(ErrExit), OutArg(out)>>

Goto(j, p) == pc' = [pc EXCEPT ![j] = p]

(* j.ok(msg, v...) / j.statusErr(msg, v...): enter job.status; ret is      *)
(* where the loop goes on when it returns.                                 *)
StatusCall(j, ok, msg, v, ret) ==
    /\ pc' = [pc EXCEPT ![j] = "status"]
    /\ call' = [call EXCEPT ![j] = [ok |-> ok, msg |-> msg, v |-> v, ret |-> ret]]

Failed(j, phase) ==
    [hist[j] EXCEPT !.fails = @ + 1, !.pend = TRUE, !.phase = phase,
                    !.last = "failed"]

(* line 99 *)
MirrorStart(j) ==
    /\ Alive /\ Started(j) /\ pc[j] = "start"
    /\ StatusCall(j, TRUE, MsgCloning, << >>, "clone")
    /\ UNCHANGED <<quantum, faults, budget, verbose, env, jobs, mainpc, mainI, mu, statusOK,
                   statusMessage, statusAge, sha, oldSHA, sleep, limWait, fs,
                   log, req, hist>>

(* lines 102-108: git clone, and the status call its result leads to *)
Clone(j) ==
    /\ Alive /\ Started(j) /\ pc[j] = "clone"
    /\ Returns
    /\ \E out \in Outputs(j) :
         \/ /\ fs' = [fs EXCEPT ![Dir(jobs[j])] = "repo"]
            /\ StatusCall(j, TRUE, MsgCloned, <<OutArg(out)>>, "setRemote")
            /\ hist' = [hist EXCEPT ![j].clones = @ + 1, ![j].entered = @ + 1,
                                     ![j].last = "ok"]
         \/ /\ CanFail(j)
            /\ \E left \in {"none", "partial"} :
                 fs' = [fs EXCEPT ![Dir(jobs[j])] = left]
            /\ StatusCall(j, FALSE, MsgCloning, Failure(out), "cloneFailed")
            /\ hist' = [hist EXCEPT ![j] =
                   [Failed(j, "clone") EXCEPT !.clones = @ + 1,
                                              !.cloneFails = @ + 1,
                                              !.since = 0]]
    /\ UNCHANGED <<quantum, faults, verbose, env, jobs, mainpc, mainI, mu, statusOK,
                   statusMessage, statusAge, sha, oldSHA, sleep, limWait, log,
                   req>>

(* A faulty variant of CloneCleanup: after the cleanup the loop returns    *)
(* instead of going round.                                                 *)
CloneGiveUp(j) ==
    /\ Alive /\ Started(j) /\ pc[j] = "cloneFailed"
    /\ fs' = [fs EXCEPT ![Dir(jobs[j])] = "none"]
    /\ hist' = [hist EXCEPT ![j].removes = @ + 1]
    /\ Goto(j, "returned")
    /\ UNCHANGED <<quantum, faults, budget, verbose, env, jobs, mainpc, mainI, mu, statusOK,
                   statusMessage, statusAge, call, sha, oldSHA, sleep, limWait, log,
                   req>>

(* lines 109-110: os.RemoveAll, and time.Sleep begins *)
CloneCleanup(j) ==
    /\ Alive /\ Started(j) /\ pc[j] = "cloneFailed"
    /\ fs' = [fs EXCEPT ![Dir(jobs[j])] = "none"]
    /\ sleep' = [sleep EXCEPT ![j] = CloneRetryDelay]
    /\ hist' = [hist EXCEPT ![j].removes = @ + 1]
    /\ Goto(j, "cloneSleep")
    /\ UNCHANGED <<quantum, faults, budget, verbose, env, jobs, mainpc, mainI, mu, statusOK,
                   statusMessage, statusAge, call, sha, oldSHA, limWait, log,
                   req>>

(* A faulty variant of CloneRetry: the loop goes round without the sleep    *)
(* of line 110 having run out.                                             *)
CloneRetryAtOnce(j) ==
    /\ Alive /\ Started(j) /\ pc[j] = "cloneSleep"
    /\ Goto(j, "clone")
    /\ UNCHANGED <<quantum, faults, budget, verbose, env, jobs, mainpc, mainI, mu, statusOK,
                   statusMessage, statusAge, call, sha, oldSHA, sleep, limWait,
                   fs, log, req, hist>>

(* lines 110-111: time.Sleep returns, continue *)
CloneRetry(j) ==
    /\ Alive /\ Started(j) /\ pc[j] = "cloneSleep"
    /\ sleep[j] = 0
    /\ Goto(j, "clone")
    /\ UNCHANGED <<quantum, faults, budget, verbose, env, jobs, mainpc, mainI, mu, statusOK,
                   statusMessage, statusAge, call, sha, oldSHA, sleep, limWait,
                   fs, log, req, hist>>

(* line 115 *)
SetRemote(j) ==
    /\ Alive /\ Started(j) /\ pc[j] = "setRemote"
    /\ StatusCall(j, TRUE, MsgSettingRemote, << >>, "remoteAdd")
    /\ UNCHANGED <<quantum, faults, budget, verbose, env, jobs, mainpc, mainI, mu, statusOK,
                   statusMessage, statusAge, sha, oldSHA, sleep, limWait, fs,
                   log, req, hist>>

(* A faulty variant of RemoteAdd: a failed remote add sends the loop back  *)
(* to the cleanup of the clone loop.                                       *)
RemoteAddReclone(j) ==
    /\ Alive /\ Started(j) /\ pc[j] = "remoteAdd"
    /\ Returns
    /\ \E out \in Outputs(j) :
         \/ /\ StatusCall(j, TRUE, MsgAddedRemote, <<OutArg(out)>>, "syncInit")
            /\ hist' = [hist EXCEPT ![j].last = "ok"]
         \/ /\ CanFail(j)
            /\ StatusCall(j, FALSE, MsgAddingRemote, Failure(out), "cloneFailed")
            /\ hist' = [hist EXCEPT ![j] = Failed(j, "remote")]
    /\ UNCHANGED <<quantum, faults, verbose, env, jobs, mainpc, mainI, mu, statusOK,
                   statusMessage, statusAge, sha, oldSHA, sleep, limWait, fs,
                   log, req>>

(* lines 116-123: git remote add *)
RemoteAdd(j) ==
    /\ Alive /\ Started(j) /\ pc[j] = "remoteAdd"
    /\ Returns
    /\ \E out \in Outputs(j) :
         \/ /\ StatusCall(j, TRUE, MsgAddedRemote, <<OutArg(out)>>, "syncInit")
            /\ hist' = [hist EXCEPT ![j].last = "ok"]
         \/ /\ CanFail(j)
            /\ StatusCall(j, FALSE, MsgAddingRemote, Failure(out), "remoteFailed")
            /\ hist' = [hist EXCEPT ![j] = Failed(j, "remote")]
    /\ UNCHANGED <<quantum, faults, verbose, env, jobs, mainpc, mainI, mu, statusOK,
                   statusMessage, statusAge, sha, oldSHA, sleep, limWait, fs,
                   log, req>>

(* line 124: time.Sleep begins *)
RemoteSleep(j) ==
    /\ Alive /\ Started(j) /\ pc[j] = "remoteFailed"
    /\ sleep' = [sleep EXCEPT ![j] = RemoteRetryDelay]
    /\ Goto(j, "remoteSleep")
    /\ UNCHANGED <<quantum, faults, budget, verbose, env, jobs, mainpc, mainI, mu, statusOK,
                   statusMessage, statusAge, call, sha, oldSHA, limWait, fs,
                   log, req, hist>>

(* lines 124-125: time.Sleep returns, the loop goes round *)
RemoteRetry(j) ==
    /\ Alive /\ Started(j) /\ pc[j] = "remoteSleep"
    /\ sleep[j] = 0
    /\ Goto(j, "setRemote")
    /\ UNCHANGED <<quantum, faults, budget, verbose, env, jobs, mainpc, mainI, mu, statusOK,
                   statusMessage, statusAge, call, sha, oldSHA, sleep, limWait,
                   fs, log, req, hist>>

(* lines 127-129: a limiter with its one token, an empty oldSHA *)
SyncInit(j) ==
    /\ Alive /\ Started(j) /\ pc[j] = "syncInit"
    /\ limWait' = [limWait EXCEPT ![j] = 0]
    /\ oldSHA' = [oldSHA EXCEPT ![j] = << >>]
    /\ Goto(j, "wait")
    /\ UNCHANGED <<quantum, faults, budget, verbose, env, jobs, mainpc, mainI, mu, statusOK,
                   statusMessage, statusAge, call, sha, sleep, fs, log, req,
                   hist>>

(* lines 132-133: limit.Wait returns once the limiter holds a token, and   *)
(* takes it; the next one is there an interval later.                      *)
LimitWait(j) ==
    /\ Alive /\ Started(j) /\ pc[j] = "wait"
    /\ limWait[j] = 0
    /\ limWait' = [limWait EXCEPT ![j] = RateInterval]
    /\ hist' = [hist EXCEPT ![j].pushes = 0, ![j].pushed = 0,
                             ![j].tokens = @ + 1, ![j].quiet = 0]
    /\ Goto(j, "pull")
    /\ UNCHANGED <<quantum, faults, budget, verbose, env, jobs, mainpc, mainI, mu, statusOK,
                   statusMessage, statusAge, call, sha, oldSHA, sleep, fs, log,
                   req>>

(* A faulty variant of Pull: a failed pull goes back to the limiter        *)
(* without the statusErr of line 140.                                      *)
PullSilentFailure(j) ==
    /\ Alive /\ Started(j) /\ pc[j] = "pull"
    /\ Returns
    /\ \E out \in Outputs(j) :
         \/ /\ log' = <<Plain(j, LogPulling, FALSE),
                        LogRec(j, Cells(LogPulled, FALSE) \o Cells(out, TRUE), TRUE)>>
            /\ Goto(j, "readHead")
            /\ hist' = [hist EXCEPT ![j].tokens = 0, ![j].last = "ok"]
         \/ /\ CanFail(j)
            /\ log' = <<Plain(j, LogPulling, FALSE)>>
            /\ Goto(j, "wait")
            /\ hist' = [hist EXCEPT ![j] = [Failed(j, "sync") EXCEPT !.tokens = 0]]
    /\ UNCHANGED <<quantum, faults, verbose, env, jobs, mainpc, mainI, mu, statusOK,
                   statusMessage, statusAge, call, sha, oldSHA, sleep, limWait, fs,
                   req>>

(* lines 135-143: git pull *)
Pull(j) ==
    /\ Alive /\ Started(j) /\ pc[j] = "pull"
    /\ Returns
    /\ \E out \in Outputs(j) :
         \/ /\ log' = <<Plain(j, LogPulling, FALSE),
                        LogRec(j, Cells(LogPulled, FALSE) \o Cells(out, TRUE), TRUE)>>
            /\ Goto(j, "readHead")
            /\ hist' = [hist EXCEPT ![j].tokens = 0, ![j].last = "ok"]
            /\ UNCHANGED call
         \/ /\ CanFail(j)
            /\ log' = <<Plain(j, LogPulling, FALSE)>>
            /\ StatusCall(j, FALSE, MsgPull, Failure(out), "wait")
            /\ hist' = [hist EXCEPT ![j] = [Failed(j, "sync") EXCEPT !.tokens = 0]]
    /\ UNCHANGED <<quantum, faults, verbose, env, jobs, mainpc, mainI, mu, statusOK,
                   statusMessage, statusAge, sha, oldSHA, sleep, limWait, fs,
                   req>>

(* A faulty variant of ReadHead: the comparison of line 151 is missing and *)
(* every HEAD read goes on to the pushes.                                  *)
ReadHeadAlwaysPush(j) ==
    /\ Alive /\ Started(j) /\ pc[j] = "readHead"
    /\ Returns
    /\ \/ /\ CanFail(j)
          /\ StatusCall(j, FALSE, MsgParseHead, <<ErrArg(ErrOpen)>>, "wait")
          /\ hist' = [hist EXCEPT ![j] = Failed(j, "sync")]
          /\ UNCHANGED sha
       \/ \E h \in Heads :
            /\ sha' = [sha EXCEPT ![j] = h]
            /\ Goto(j, "push") /\ UNCHANGED call
            /\ hist' = [hist EXCEPT ![j].last = "ok"]
    /\ UNCHANGED <<quantum, faults, verbose, env, jobs, mainpc, mainI, mu, statusOK,
                   statusMessage, statusAge, oldSHA, sleep, limWait, fs, log,
                   req>>

(* lines 145-154: read the ref file, compare with oldSHA *)
ReadHead(j) ==
    /\ Alive /\ Started(j) /\ pc[j] = "readHead"
    /\ Returns
    /\ \/ /\ CanFail(j)
          /\ StatusCall(j, FALSE, MsgParseHead, <<ErrArg(ErrOpen)>>, "wait")
          /\ hist' = [hist EXCEPT ![j] = Failed(j, "sync")]
          /\ UNCHANGED sha
       \/ \E h \in Heads :
            /\ sha' = [sha EXCEPT ![j] = h]
            /\ IF h = oldSHA[j]
               THEN StatusCall(j, TRUE, MsgNothing \o oldSHA[j], << >>, "wait")
               ELSE Goto(j, "push") /\ UNCHANGED call
            /\ hist' = [hist EXCEPT ![j].last = "ok"]
    /\ UNCHANGED <<quantum, faults, verbose, env, jobs, mainpc, mainI, mu, statusOK,
                   statusMessage, statusAge, oldSHA, sleep, limWait, fs, log,
                   req>>

(* A faulty variant of Push: the baseline is stored as soon as the branch  *)
(* push has succeeded, before the tags are pushed.                         *)
PushRecordsBaseline(j) ==
    /\ Alive /\ Started(j) /\ pc[j] = "push"
    /\ Returns
    /\ log' = <<Plain(j, LogPushing, FALSE)>>
    /\ \E out \in Outputs(j) :
         \/ /\ Goto(j, "pushTags")
            /\ hist' = [hist EXCEPT ![j].pushes = @ + 1, ![j].pushed = @ + 1,
                                     ![j].retry = @ \ {sha[j]},
                                     ![j].last = "ok",
                                     ![j].branch = [ok |-> TRUE, sha |-> sha[j]]]
            /\ oldSHA' = [oldSHA EXCEPT ![j] = sha[j]]
            /\ UNCHANGED call
         \/ /\ CanFail(j)
            /\ StatusCall(j, FALSE, MsgPush, Failure(out), "wait")
            /\ hist' = [hist EXCEPT ![j] =
                   [Failed(j, "sync") EXCEPT !.pushes = @ + 1,
                                             !.retry = @ \cup {sha[j]},
                                             !.branch = [ok |-> FALSE, sha |-> sha[j]]]]
            /\ UNCHANGED oldSHA
    /\ UNCHANGED <<quantum, faults, verbose, env, jobs, mainpc, mainI, mu, statusOK,
                   statusMessage, statusAge, sha, sleep, limWait, fs,
                   req>>

(* lines 156-163: git push --all to *)
Push(j) ==
    /\ Alive /\ Started(j) /\ pc[j] = "push"
    /\ Returns
    /\ log' = <<Plain(j, LogPushing, FALSE)>>
    /\ \E out \in Outputs(j) :
         \/ /\ Goto(j, "pushTags")
            /\ hist' = [hist EXCEPT ![j].pushes = @ + 1, ![j].pushed = @ + 1,
                                     ![j].retry = @ \ {sha[j]},
                                     ![j].last = "ok",
                                     ![j].branch = [ok |-> TRUE, sha |-> sha[j]]]
            /\ UNCHANGED call
         \/ /\ CanFail(j)
            /\ StatusCall(j, FALSE, MsgPush, Failure(out), "wait")
            /\ hist' = [hist EXCEPT ![j] =
                   [Failed(j, "sync") EXCEPT !.pushes = @ + 1,
                                             !.retry = @ \cup {sha[j]},
                                             !.branch = [ok |-> FALSE, sha |-> sha[j]]]]
    /\ UNCHANGED <<quantum, faults, verbose, env, jobs, mainpc, mainI, mu, statusOK,
                   statusMessage, statusAge, sha, oldSHA, sleep, limWait, fs,
                   req>>

(* A faulty variant of PushTags: after a failed push of the tags the loop  *)
(* pulls again without going to the limiter.                               *)
PushTagsRetryAtOnce(j) ==
    /\ Alive /\ Started(j) /\ pc[j] = "pushTags"
    /\ Returns
    /\ log' = <<Plain(j, LogPushingTags, FALSE)>>
    /\ \E out \in Outputs(j) :
         \/ /\ StatusCall(j, TRUE, MsgPushed, <<OutArg(out)>>, "record")
            /\ hist' = [hist EXCEPT ![j].pushes = @ + 1, ![j].pushed = @ + 1,
                                     ![j].last = "ok",
                                     ![j].tags = [ok |-> TRUE, sha |-> sha[j]]]
         \/ /\ CanFail(j)
            /\ StatusCall(j, FALSE, MsgPushTags, Failure(out), "pull")
            /\ hist' = [hist EXCEPT ![j] =
                   [Failed(j, "sync") EXCEPT !.pushes = @ + 1,
                                             !.retry = @ \cup {sha[j]},
                                             !.tags = [ok |-> FALSE, sha |-> sha[j]]]]
    /\ UNCHANGED <<quantum, faults, verbose, env, jobs, mainpc, mainI, mu, statusOK,
                   statusMessage, statusAge, sha, oldSHA, sleep, limWait, fs,
                   req>>

(* lines 165-174: git push --tags to *)
PushTags(j) ==
    /\ Alive /\ Started(j) /\ pc[j] = "pushTags"
    /\ Returns
    /\ log' = <<Plain(j, LogPushingTags, FALSE)>>
    /\ \E out \in Outputs(j) :
         \/ /\ StatusCall(j, TRUE, MsgPushed, <<OutArg(out)>>, "record")
            /\ hist' = [hist EXCEPT ![j].pushes = @ + 1, ![j].pushed = @ + 1,
                                     ![j].last = "ok",
                                     ![j].tags = [ok |-> TRUE, sha |-> sha[j]]]
         \/ /\ CanFail(j)
            /\ StatusCall(j, FALSE, MsgPushTags, Failure(out), "wait")
            /\ hist' = [hist EXCEPT ![j] =
                   [Failed(j, "sync") EXCEPT !.pushes = @ + 1,
                                             !.retry = @ \cup {sha[j]},
                                             !.tags = [ok |-> FALSE, sha |-> sha[j]]]]
    /\ UNCHANGED <<quantum, faults, verbose, env, jobs, mainpc, mainI, mu, statusOK,
                   statusMessage, statusAge, sha, oldSHA, sleep, limWait, fs,
                   req>>

(* line 175 *)
Record(j) ==
    /\ Alive /\ Started(j) /\ pc[j] = "record"
    /\ oldSHA' = [oldSHA EXCEPT ![j] = sha[j]]
    /\ Goto(j, "wait")
    /\ UNCHANGED <<quantum, faults, budget, verbose, env, jobs, mainpc, mainI, mu, statusOK,
                   statusMessage, statusAge, call, sha, sleep, limWait, fs, log,
                   req, hist>>

----------------------------------------------------------------------------
(* job.status *)

(* A status update that does not take the lock. *)
StatusLockFree(j) ==
    /\ Alive /\ Started(j) /\ pc[j] = "status"
    /\ Goto(j, "locked")
    /\ UNCHANGED <<quantum, faults, budget, verbose, env, jobs, mainpc, mainI, mu, statusOK,
                   statusMessage, statusAge, call, sha, oldSHA, sleep, limWait,
                   fs, log, req, hist>>

(* line 215: j.mu.Lock() *)
StatusLock(j) ==
    /\ Alive /\ Started(j) /\ pc[j] = "status"
    /\ mu[j] = "free"
    /\ mu' = [mu EXCEPT ![j] = "mirror"]
    /\ Goto(j, "locked")
    /\ UNCHANGED <<quantum, faults, budget, verbose, env, jobs, mainpc, mainI, statusOK,
                   statusMessage, statusAge, call, sha, oldSHA, sleep, limWait,
                   fs, log, req, hist>>

(* A status update that returns without Unlock. *)
StatusUpdateKeepsLock(j) ==
    /\ Alive /\ Started(j) /\ pc[j] = "locked"
    /\ statusOK' = [statusOK EXCEPT ![j] = call[j].ok]
    /\ statusMessage' = [statusMessage EXCEPT ![j] = call[j].msg]
    /\ statusAge' = [statusAge EXCEPT ![j] = 0]
    /\ log' = <<LogRec(j, StatusRecord(jobs[j], call[j].ok, call[j].msg, call[j].v),
                       HasOutput(call[j].v))>>
    /\ hist' = [hist EXCEPT ![j].pend = IF call[j].ok THEN @ ELSE FALSE,
                             ![j].updated = TRUE]
    /\ pc' = [pc EXCEPT ![j] = call[j].ret]
    /\ call' = [call EXCEPT ![j] = NoCall]
    /\ UNCHANGED <<quantum, faults, budget, verbose, env, jobs, mainpc, mainI, mu, sha, oldSHA,
                   sleep, limWait, fs, req>>

(* lines 217-246: the three fields, Unlock, and the log record *)
StatusUpdate(j) ==
    /\ Alive /\ Started(j) /\ pc[j] = "locked"
    /\ statusOK' = [statusOK EXCEPT ![j] = call[j].ok]
    /\ statusMessage' = [statusMessage EXCEPT ![j] = call[j].msg]
    /\ statusAge' = [statusAge EXCEPT ![j] = 0]
    /\ mu' = [mu EXCEPT ![j] = "free"]
    /\ log' = <<LogRec(j, StatusRecord(jobs[j], call[j].ok, call[j].msg, call[j].v),
                       HasOutput(call[j].v))>>
    /\ hist' = [hist EXCEPT ![j].pend = IF call[j].ok THEN @ ELSE FALSE,
                             ![j].updated = TRUE]
    /\ pc' = [pc EXCEPT ![j] = call[j].ret]
    /\ call' = [call EXCEPT ![j] = NoCall]
    /\ UNCHANGED <<quantum, faults, budget, verbose, env, jobs, mainpc, mainI, sha, oldSHA,
                   sleep, limWait, fs, req>>

----------------------------------------------------------------------------
(* Time *)

Tick ==
    /\ mainpc \in {"validate", "serve"}
    /\ statusAge' = [j \in Jobs |-> Min(statusAge[j] + quantum, Ancient)]
    /\ sleep' = [j \in Jobs |-> Monus(sleep[j], quantum)]
    /\ limWait' = [j \in Jobs |-> Monus(limWait[j], quantum)]
    /\ hist' = [j \in Jobs |->
                  [hist[j] EXCEPT !.since = Min(@ + quantum, CloneRetryDelay),
                                  !.quiet = Min(@ + quantum, RateInterval)]]
    /\ UNCHANGED <<quantum, faults, budget, verbose, env, jobs, mainpc, mainI, pc, mu, statusOK,
                   statusMessage, call, sha, oldSHA, fs, log, req>>

(* From here on every external operation succeeds. *)
Heal ==
    /\ faults
    /\ faults' = FALSE
    /\ UNCHANGED <<quantum, budget, verbose, env, jobs, mainpc, mainI, pc, mu, statusOK,
                   statusMessage, statusAge, call, sha, oldSHA, sleep, limWait,
                   fs, log, req, hist>>

----------------------------------------------------------------------------
(* statusz *)

(* http.ResponseWriter: the first WriteHeader decides the status code, and *)
(* a write to the body before any WriteHeader decides for 200.             *)
WriteHeader(hdr, code) == IF hdr = 0 THEN code ELSE hdr

Write(hdr) == WriteHeader(hdr, 200)

(* time.Now().After(j.statusTime.Add(15 * time.Minute)) *)
Stale(j) == statusAge[j] > StaleAfter

(* A faulty variant of Checked: for a stale job the line of the body is    *)
(* written before the header.                                              *)
CheckedBodyFirst(hdr, j) ==
    LET h == IF ~statusOK[j] THEN WriteHeader(hdr, 500) ELSE hdr
    IN  IF Stale(j) THEN WriteHeader(Write(h), 500) ELSE h

(* lines 184-192: what the first loop writes for job j *)
Checked(hdr, j) ==
    LET h == IF ~statusOK[j] THEN WriteHeader(hdr, 500) ELSE hdr
    IN  IF Stale(j) THEN Write(WriteHeader(h, 500)) ELSE h

(* A request arrives; with no job at all the handler returns at once and   *)
(* the server answers 200.                                                 *)
StatuszBegin ==
    /\ mainpc = "serve"
    /\ req.pc \in {"idle", "done"}
    /\ req' = IF Len(jobs) = 0
              THEN [NoReq EXCEPT !.pc = "done", !.hdr = Write(0)]
              ELSE [NoReq EXCEPT !.pc = "check", !.i = 1]
    /\ UNCHANGED <<quantum, faults, budget, verbose, env, jobs, mainpc, mainI, pc, mu, statusOK,
                   statusMessage, statusAge, call, sha, oldSHA, sleep, limWait,
                   fs, log, hist>>

(* lines 183 and 197: j.mu.Lock() *)
StatuszLock ==
    /\ Alive
    /\ req.pc \in {"check", "render"}
    /\ mu[req.i] = "free"
    /\ mu' = [mu EXCEPT ![req.i] = "statusz"]
    /\ req' = [req EXCEPT !.pc = IF req.pc = "check" THEN "checking" ELSE "rendering"]
    /\ UNCHANGED <<quantum, faults, budget, verbose, env, jobs, mainpc, mainI, pc, statusOK,
                   statusMessage, statusAge, call, sha, oldSHA, sleep, limWait,
                   fs, log, hist>>

(* lines 184-193: one iteration of the first loop, to its Unlock *)
StatuszCheck ==
    /\ Alive
    /\ req.pc = "checking"
    /\ mu' = [mu EXCEPT ![req.i] = "free"]
    /\ req' = [req EXCEPT !.pc = IF req.i < Len(jobs) THEN "check" ELSE "render",
                          !.i = IF req.i < Len(jobs) THEN req.i + 1 ELSE 1,
                          !.hdr = Checked(req.hdr, req.i),
                          !.bad = @ \/ ~statusOK[req.i] \/ Stale(req.i)]
    /\ UNCHANGED <<quantum, faults, budget, verbose, env, jobs, mainpc, mainI, pc, statusOK,
                   statusMessage, statusAge, call, sha, oldSHA, sleep, limWait,
                   fs, log, hist>>

(* lines 198-202: one iteration of the second loop, to its Unlock *)
StatuszRender ==
    /\ Alive
    /\ req.pc = "rendering"
    /\ mu' = [mu EXCEPT ![req.i] = "free"]
    /\ req' = [req EXCEPT !.pc = IF req.i < Len(jobs) THEN "render" ELSE "done",
                          !.i = IF req.i < Len(jobs) THEN req.i + 1 ELSE 0,
                          !.hdr = Write(req.hdr),
                          !.nok = @ \/ ~statusOK[req.i]]
    /\ UNCHANGED <<quantum, faults, budget, verbose, env, jobs, mainpc, mainI, pc, statusOK,
                   statusMessage, statusAge, call, sha, oldSHA, sleep, limWait,
                   fs, log, hist>>

----------------------------------------------------------------------------
(* The configurations and the specifications *)

Quanta == {RateInterval, StaleAfter}

IDs == {<< >>, <<"a">>, <<"b">>}

Froms == {<< >>, <<"q">>}

Tos == {<< >>, <<"z">>}

JobRecs == {Job(id, f, t) : id \in IDs, f \in Froms, t \in Tos}

JobLists == UNION {[1..n -> JobRecs] : n \in 0..MaxJobs}

Env(repos, list, from, to) ==
    [REPOS |-> repos, list |-> list, FROM_REPO |-> from, TO_REPO |-> to]

Envs ==
    {Env("json", l, << >>, << >>) : l \in JobLists}
        \cup {Env("invalid", << >>, << >>, << >>)}
        \cup {Env("unset", << >>, f, t) : f \in Froms, t \in Tos}

Boot(e, ops, v) ==
    /\ env = e
    /\ budget = ops
    /\ verbose = v
    /\ faults = TRUE
    /\ jobs = << >>
    /\ mainpc = "load"
    /\ mainI = 0
    /\ pc = << >>
    /\ mu = << >>
    /\ statusOK = << >>
    /\ statusMessage = << >>
    /\ statusAge = << >>
    /\ call = << >>
    /\ sha = << >>
    /\ oldSHA = << >>
    /\ sleep = << >>
    /\ limWait = << >>
    /\ fs = << >>
    /\ log = << >>
    /\ req = NoReq
    /\ hist = << >>

Main == Load \/ Validate \/ Serve

Cloning(j) ==
    \/ MirrorStart(j) \/ Clone(j) \/ CloneCleanup(j) \/ CloneRetry(j)
    \/ StatusLock(j) \/ StatusUpdate(j)

Mirror(j) ==
    \/ Cloning(j)
    \/ SetRemote(j) \/ RemoteAdd(j) \/ RemoteSleep(j) \/ RemoteRetry(j)
    \/ SyncInit(j) \/ LimitWait(j) \/ Pull(j) \/ ReadHead(j) \/ Push(j)
    \/ PushTags(j) \/ Record(j)

Statusz == StatuszBegin \/ StatuszLock \/ StatuszCheck \/ StatuszRender

(* The process from its start, for every configuration: main, the loops    *)
(* while they clone, at most MaxOps git commands returning, and the clock. *)
Init ==
    /\ quantum = StaleAfter
    /\ \E e \in Envs : Boot(e, MaxOps, FALSE)

Next == Main \/ (\E j \in Jobs : Cloning(j)) \/ Tick

Spec == Init /\ [][Next]_vars

(* The status endpoint: up to MaxJobs valid jobs, their loops while they   *)
(* clone, at most MaxOps git commands returning, the clock, the requests.  *)
NthID(n) == [k \in 1..n |-> "a"]

ValidList(n) == [k \in 1..n |-> Job(NthID(k), <<"q">>, <<"z">>)]

InitStatusz ==
    /\ quantum = StaleAfter
    /\ \E n \in 0..MaxJobs : Boot(Env("json", ValidList(n), << >>, << >>), MaxOps, FALSE)

NextStatusz == Main \/ (\E j \in Jobs : Cloning(j)) \/ Tick \/ Statusz

SpecStatusz == InitStatusz /\ [][NextStatusz]_vars

(* One job and the whole of its loop, every command returning, and the     *)
(* clock: no request.                                                      *)
InitMirror ==
    /\ quantum \in Quanta
    /\ Boot(Env("json", <<Job(<<"a">>, <<"q">>, <<"z">>)>>, << >>, << >>),
            Unbounded, TRUE)

NextMirror == Main \/ (\E j \in Jobs : Mirror(j)) \/ Tick

SpecMirror == InitMirror /\ [][NextMirror]_vars

(* The same with fairness: main and the loop keep taking their steps, time *)
(* keeps passing, and the environment may stop injecting failures.         *)
InitLive ==
    /\ quantum = StaleAfter
    /\ Boot(Env("json", <<Job(<<"a">>, <<"q">>, <<"z">>)>>, << >>, << >>),
            Unbounded, FALSE)

NextLive == NextMirror \/ Heal

SpecLive ==
    /\ InitLive
    /\ [][NextLive]_vars
    /\ WF_vars(Main)
    /\ WF_vars(Mirror(1))
    /\ WF_vars(Tick)

(* Startup with values to resolve: up to MaxJobs jobs of distinct IDs,     *)
(* each From and To empty, literal or a metadata: reference.               *)
Refs == {MetadataPrefix \o <<"k">>}

RefLists ==
    UNION {{[k \in 1..n |-> Job(NthID(k), f[k], t[k])] :
               f \in [1..n -> Froms \cup Refs], t \in [1..n -> Tos \cup Refs]} :
           n \in 1..MaxJobs}

InitResolve ==
    /\ quantum = StaleAfter
    /\ \E l \in RefLists : Boot(Env("json", l, << >>, << >>), MaxOps, FALSE)

SpecResolve == InitResolve /\ [][Next]_vars

(* The endpoint with fairness: up to MaxJobs valid jobs, each loop up to   *)
(* the place where it blocks for good: in a git clone that never returns   *)
(* (at most MaxOps git commands return) or in the sleep after a failed     *)
(* clone (no clock in this specification). A goroutine that can take a     *)
(* step takes it: the handler goes on, job.status goes from Lock to        *)
(* Unlock, and a goroutine waiting for a sync.Mutex that is released again *)
(* and again gets it. Nothing is assumed of git or of the clients.         *)
Attempt(j) ==
    \/ MirrorStart(j) \/ Clone(j) \/ CloneCleanup(j)
    \/ StatusLock(j) \/ StatusUpdate(j)

NextServe == Main \/ (\E j \in Jobs : Attempt(j)) \/ Statusz

SpecServe ==
    /\ InitStatusz
    /\ [][NextServe]_vars
    /\ SF_vars(StatuszLock)
    /\ WF_vars(StatuszCheck \/ StatuszRender)
    /\ \A j \in 1..MaxJobs : SF_vars(StatusLock(j)) /\ WF_vars(StatusUpdate(j))

(* job.status on its own: every label, every From and To over a small      *)
(* alphabet, every list of supplementary values the loop passes.           *)
Alphabet == {"O", "q"}

Strings(n) == UNION {[1..k -> Alphabet] : k \in 0..n}

Labels ==
    {MsgCloning, MsgCloned, MsgSettingRemote, MsgAddedRemote, MsgAddingRemote,
     MsgPull, MsgParseHead, MsgPush, MsgPushTags, MsgPushed}
        \cup {MsgNothing \o h : h \in Heads}

Values ==
    {<< >>} \cup {<<OutArg(x)>> : x \in Strings(MaxOut)}
            \cup {Failure(x) : x \in Strings(MaxOut)}

InitRedact ==
    /\ quantum = StaleAfter
    /\ budget = 0
    /\ verbose = TRUE
    /\ faults = FALSE
    /\ env = Env("unset", << >>, << >>, << >>)
    /\ \E f \in Strings(MaxStr) \ {<< >>}, t \in Strings(MaxStr) \ {<< >>} :
         jobs = <<Job(<<"a">>, f, t)>>
    /\ mainpc = "serve"
    /\ mainI = 2
    /\ pc = <<"status">>
    /\ mu = <<"free">>
    /\ statusOK = <<TRUE>>
    /\ statusMessage = << << >> >>
    /\ statusAge = <<Ancient>>
    /\ \E ok \in BOOLEAN, msg \in Labels, v \in Values :
         call = <<[ok |-> ok, msg |-> msg, v |-> v, ret |-> "wait"]>>
    /\ sha = << << >> >>
    /\ oldSHA = << << >> >>
    /\ sleep = <<0>>
    /\ limWait = <<RateInterval>>
    /\ fs = [d \in {Dir(Job(<<"a">>, << >>, << >>))} |-> "repo"]
    /\ log = << >>
    /\ req = NoReq
    /\ hist = <<NoHist>>

NextRedact == \E j \in Jobs : StatusLock(j) \/ StatusUpdate(j)

SpecRedact == InitRedact /\ [][NextRedact]_vars

----------------------------------------------------------------------------
(* Properties of the mirror loop (SpecMirror) *)

(* The position the loop is at, looking through a status call to where it  *)
(* returns.                                                                *)
InStatus(j) == pc[j] \in {"status", "locked"}

Where(j) == IF InStatus(j) THEN call[j].ret ELSE pc[j]

(* Still in the clone loop: before the break of line 106. *)
InCloning(j) ==
    \/ pc[j] \in {"start", "clone", "cloneFailed", "cloneSleep"}
    \/ InStatus(j) /\ call[j].ret \in {"clone", "cloneFailed", "setRemote"}

(* The clone that succeeded is behind: its status call, or later. *)
CloneDone(j) == ~InCloning(j) \/ (InStatus(j) /\ call[j].ret = "setRemote")

(* The external operation of job j that just returned did not fail. *)
Succeeded(j) == hist'[j].fails = hist[j].fails

(* C4: a job whose clone fails N times and then succeeds makes exactly N+1 *)
(* clone attempts; after every failed attempt it removes the directory and *)
(* lets CloneRetryDelay pass before the next attempt; and it leaves the    *)
(* clone loop once, with the attempt that succeeded.                       *)
CloneRetries ==
    \A j \in Jobs : Started(j) =>
        LET h == hist[j] IN
        /\ h.clones = h.cloneFails + h.entered
        /\ h.entered = IF CloneDone(j) THEN 1 ELSE 0
        /\ h.removes = IF Where(j) = "cloneFailed" THEN h.cloneFails - 1
                       ELSE h.cloneFails
        /\ pc[j] = "clone" /\ h.cloneFails > 0 =>
              /\ h.since >= CloneRetryDelay
              /\ fs[Dir(jobs[j])] = "none"

CloneRetriesWitness ==
    \E j \in Jobs : /\ Started(j) /\ pc[j] = "setRemote"
                    /\ hist[j].cloneFails = 2 /\ hist[j].clones = 3

(* C5: when the pull and the HEAD read succeed and the HEAD read is the    *)
(* baseline, the loop calls the status update with ok and the "nothing to  *)
(* push" label, has attempted no push in the iteration, goes back to wait  *)
(* for the limiter, and the baseline stays as it is.                       *)
NothingCall(j) == InStatus(j) /\ HasPrefix(call[j].msg, MsgNothing)

NothingToPush ==
    /\ [](\A j \in Jobs : NothingCall(j) =>
            /\ call[j].ok
            /\ call[j].ret = "wait"
            /\ hist[j].pushes = 0
            /\ sha[j] = oldSHA[j])
    /\ [][\A j \in Jobs :
            /\ (pc[j] = "readHead" /\ pc'[j] # "readHead" /\ Succeeded(j)
                  /\ sha'[j] = oldSHA[j])
                 => (NothingCall(j))' /\ oldSHA'[j] = oldSHA[j]
            /\ (pc[j] = "locked" /\ pc'[j] # "locked" /\ NothingCall(j))
                 => /\ statusOK'[j] /\ HasPrefix(statusMessage'[j], MsgNothing)
                    /\ pc'[j] = "wait" /\ oldSHA'[j] = oldSHA[j]
                    /\ hist'[j].pushes = 0]_vars

NothingToPushWitness ==
    \E j \in Jobs : /\ Started(j) /\ pc[j] = "wait" /\ statusOK[j]
                    /\ statusMessage[j] = MsgNothing \o <<"1">>
                    /\ oldSHA[j] = <<"1">>

(* C6: the baseline changes only at the end of an iteration whose HEAD     *)
(* differed from it and whose two pushes succeeded, and becomes that HEAD; *)
(* a HEAD whose push failed is never the baseline, and the next iteration  *)
(* that reads it, after a pull that succeeded, pushes the branches again.  *)
BaselineUpdate ==
    /\ [](\A j \in Jobs : Started(j) => oldSHA[j] \notin hist[j].retry)
    /\ [][\A j \in Jobs :
            /\ oldSHA'[j] # oldSHA[j] =>
                 /\ pc[j] = "record" /\ pc'[j] = "wait"
                 /\ oldSHA'[j] = sha[j]
                 /\ hist[j].pushes = 2 /\ hist[j].pushed = 2
            /\ ~Succeeded(j) => oldSHA'[j] = oldSHA[j]
            /\ (pc[j] = "readHead" /\ pc'[j] # "readHead" /\ Succeeded(j)
                  /\ sha'[j] \in hist[j].retry)
                 => pc'[j] = "push"]_vars

BaselineUpdateWitness ==
    \E j \in Jobs : /\ Started(j) /\ pc[j] = "push" /\ sha[j] \in hist[j].retry
                    /\ oldSHA[j] # << >>

(* C7: a failed clone, remote add, pull, HEAD read or push is followed by  *)
(* a status update with ok = FALSE before the loop does anything else, and *)
(* from it the loop goes back into the phase that failed: to the cleanup   *)
(* and the sleep before the next clone, to the sleep before the next       *)
(* remote add, or to the limiter before the next pull.  Nothing ends the   *)
(* loop or the process.                                                    *)
RetryFrom(phase) ==
    IF phase = "clone" THEN "cloneFailed"
    ELSE IF phase = "remote" THEN "remoteFailed" ELSE "wait"

FailuresPublished ==
    /\ [](\A j \in Jobs : Started(j) /\ hist[j].pend =>
            /\ InStatus(j) /\ ~call[j].ok
            /\ call[j].ret = RetryFrom(hist[j].phase))
    /\ [][\A j \in Jobs :
            /\ ~Succeeded(j) => hist'[j].pend /\ mainpc' = mainpc
            /\ (pc[j] = "locked" /\ pc'[j] # "locked" /\ hist[j].pend)
                 => ~statusOK'[j] /\ pc'[j] = RetryFrom(hist[j].phase)
            /\ pc[j] = "cloneFailed" => pc'[j] \in {"cloneFailed", "cloneSleep"}
            /\ pc[j] = "cloneSleep" => pc'[j] \in {"cloneSleep", "clone"}
            /\ pc[j] = "remoteFailed" => pc'[j] \in {"remoteFailed", "remoteSleep"}
            /\ pc[j] = "remoteSleep" => pc'[j] \in {"remoteSleep", "setRemote"}
            /\ pc[j] = "setRemote" => InStatus(j)' \/ pc'[j] = "setRemote"
            /\ pc[j] = "wait" => pc'[j] \in {"wait", "pull"}]_vars

FailuresPublishedWitness ==
    \E j \in Jobs : /\ Started(j) /\ pc[j] = "pull" /\ ~statusOK[j]
                    /\ statusMessage[j] = MsgPushTags /\ hist[j].fails = 2

(* C10: no log record that carries the output of a git command shows the   *)
(* job's From or To.                                                       *)
Shows(r, job) == Contains(r.text, job.From) \/ Contains(r.text, job.To)

OutputRedacted ==
    \A k \in 1..Len(log) : log[k].cmd => ~Shows(log[k], jobs[log[k].j])

----------------------------------------------------------------------------
(* Properties of the status endpoint (SpecStatusz) *)

(* C1: a request is answered 500 exactly when the handler found a job not  *)
(* ok or stale (its status older than StaleAfter when it looked at it      *)
(* under the job's lock), and 200 otherwise; before the answer is          *)
(* complete, the header is 500 or still unwritten accordingly.             *)
StatuszAnswer ==
    /\ req.pc \in {"check", "checking"} =>
          req.hdr = IF req.bad THEN 500 ELSE 0
    /\ req.pc \in {"render", "rendering"} =>
          /\ req.bad => req.hdr = 500
          /\ ~req.bad => req.hdr \in {0, 200}
    /\ req.pc = "done" => req.hdr = IF req.bad THEN 500 ELSE 200

StatuszAnswerWitness ==
    /\ req.pc = "done" /\ req.hdr = 500
    /\ Len(jobs) = 2
    /\ \A j \in Jobs : statusOK[j]
    /\ \E j \in Jobs : ~Stale(j)

----------------------------------------------------------------------------
(* Properties of startup (Spec) *)

InvalidJob(job) == job.ID = << >> \/ job.From = << >> \/ job.To = << >>

(* C2: with a job of empty ID, From or To anywhere in the list, no job's   *)
(* mirror loop is ever started.                                            *)
NoStartBeforeValidation ==
    (\E k \in Jobs : InvalidJob(jobs[k])) => \A j \in Jobs : ~Started(j)

(* C3: no two started mirror loops have the same ID.                       *)
UniqueIDs ==
    \A i, j \in Jobs :
        Started(i) /\ Started(j) /\ i # j => jobs[i].ID # jobs[j].ID

----------------------------------------------------------------------------
(* Self-healing (SpecLive) *)

(* The job has published a status, the status is ok, and no failing status *)
(* is on its way.                                                          *)
Healthy(j) ==
    /\ j \in Jobs /\ Started(j)
    /\ statusOK[j] /\ statusMessage[j] # << >>
    /\ ~(InStatus(j) /\ ~call[j].ok)

(* C8: once the job's external operations no longer fail, the job comes to *)
(* publish an ok status and never publishes a failing one again.           *)
SelfHealing == ~faults ~> [](Healthy(1))

SelfHealingWitness ==
    /\ ~faults /\ 1 \in Jobs /\ Started(1) /\ ~statusOK[1]
    /\ hist[1].phase = "sync"

----------------------------------------------------------------------------
(* Redaction of the status log record (SpecRedact) *)

(* p occurs in record r within bytes that all come from the label or the   *)
(* supplementary values.                                                   *)
OccursInData(r, p) ==
    \E i \in 1..Len(r.text) :
        /\ HasPrefixAt(r.text, i, p)
        /\ \A k \in 0..(Len(p) - 1) : r.data[i + k]

(* C9, as the specification states it: the record of a status update shows *)
(* neither From nor To.                                                    *)
RecordHidesURLs ==
    \A k \in 1..Len(log) : ~Shows(log[k], jobs[log[k].j])

(* C9, as the code has it: in the record of a status update no occurrence  *)
(* of From or of To lies within the label and the supplementary values;    *)
(* an occurrence that remains takes in at least one byte of a placeholder  *)
(* or of the "OK: " / "FAIL: " prefix.                                     *)
RecordRedactsData ==
    \A k \in 1..Len(log) :
        /\ ~OccursInData(log[k], jobs[log[k].j].From)
        /\ ~OccursInData(log[k], jobs[log[k].j].To)

RecordRedactsDataWitness ==
    \E k \in 1..Len(log) :
        /\ Contains(log[k].text, RedactedFrom)
        /\ Contains(log[k].text, RedactedTo)
        /\ jobs[log[k].j].From # jobs[log[k].j].To
        /\ ~Shows(log[k], jobs[log[k].j])

----------------------------------------------------------------------------
(* The order of the phases (SpecMirror) *)

(* The phase the loop is in: 0 not started, 1 Cloning, 2 RemoteSetup,      *)
(* 3 Syncing.  A status call belongs to the phase it returns into.         *)
Phase(j) ==
    IF Where(j) = "none" THEN 0
    ELSE IF Where(j) \in {"start", "clone", "cloneFailed", "cloneSleep"} THEN 1
    ELSE IF Where(j) \in {"setRemote", "remoteAdd", "remoteFailed", "remoteSleep"}
         THEN 2
    ELSE 3

(* C11: a job's phase never goes back and never skips; RemoteSetup is      *)
(* entered by a clone that succeeded, Syncing by a remote add that         *)
(* succeeded; and past Cloning the job neither clones nor removes its      *)
(* directory again.                                                        *)
PhaseOrder ==
    [][\A j \in Jobs :
         /\ Phase(j)' >= Phase(j) /\ Phase(j)' <= Phase(j) + 1
         /\ (Phase(j) = 1 /\ Phase(j)' = 2) =>
               /\ pc[j] = "clone" /\ Succeeded(j)
               /\ hist'[j].clones = hist[j].clones + 1
               /\ fs'[Dir(jobs[j])] = "repo"
         /\ (Phase(j) = 2 /\ Phase(j)' = 3) =>
               pc[j] = "remoteAdd" /\ Succeeded(j)
         /\ Phase(j) >= 2 =>
               /\ hist'[j].clones = hist[j].clones
               /\ hist'[j].removes = hist[j].removes
               /\ fs'[Dir(jobs[j])] = fs[Dir(jobs[j])]]_vars

PhaseOrderWitness ==
    \E j \in Jobs : /\ Phase(j) = 3 /\ pc[j] = "pull"
                    /\ hist[j].phase = "sync" /\ hist[j].fails = 2
                    /\ hist[j].clones = 1

----------------------------------------------------------------------------
(* The rate limiter (SpecMirror) *)

(* C12: the limiter admits the loop only when it has admitted nothing for  *)
(* RateInterval, every pull has exactly one admission behind it since the  *)
(* pull before, and whatever the outcome of an iteration, the loop is back *)
(* at the limiter before it pulls again.                                   *)
RateLimited ==
    /\ [](\A j \in Jobs : Started(j) =>
            hist[j].tokens = IF pc[j] = "pull" THEN 1 ELSE 0)
    /\ [][\A j \in Jobs :
            /\ hist'[j].tokens > hist[j].tokens =>
                  /\ pc[j] = "wait" /\ pc'[j] = "pull"
                  /\ hist[j].quiet >= RateInterval
            /\ (Phase(j) = 3 /\ pc'[j] = "pull" /\ pc[j] # "pull") =>
                  pc[j] = "wait"
            /\ (Phase(j) = 3 /\ pc[j] \in {"pull", "readHead", "push", "pushTags", "record"}
                  /\ InStatus(j)') => call'[j].ret \in {"wait", "record"}]_vars

RateLimitedWitness ==
    \E j \in Jobs : /\ pc[j] = "pull" /\ hist[j].tokens = 1
                    /\ hist[j].phase = "sync" /\ ~statusOK[j]
                    /\ statusMessage[j] = MsgPush

----------------------------------------------------------------------------
(* What the status says of the last operation (SpecMirror) *)

(* C13: once the failing status of an operation that failed has been       *)
(* stored, the job's statusOK is false for as long as that operation is    *)
(* the job's most recent one.                                              *)
StatusTracksLastOp ==
    \A j \in Jobs :
        Started(j) /\ hist[j].last = "failed" /\ ~hist[j].pend => ~statusOK[j]

----------------------------------------------------------------------------
(* C14: who writes and who reads the status fields *)

(* A step writes a status field of job j. *)
Written(j) ==
    \/ statusOK'[j] # statusOK[j]
    \/ statusMessage'[j] # statusMessage[j]
    \/ statusAge'[j] < statusAge[j]

(* The write of job.status, lines 217-221: all three fields, between Lock  *)
(* and Unlock.                                                             *)
UpdateWrite(j) ==
    /\ pc[j] = "locked" /\ mu[j] = "mirror" /\ mu'[j] = "free"
    /\ statusOK'[j] = call[j].ok
    /\ statusMessage'[j] = call[j].msg
    /\ statusAge'[j] = 0

(* The write of main, line 71: statusOK alone, no lock, before the job's   *)
(* goroutine exists and before the handler is served.                      *)
InitialWrite(j) ==
    /\ mainpc = "validate" /\ mainI = j /\ pc[j] = "none" /\ req = NoReq
    /\ mu[j] = "free" /\ mu'[j] = "free"
    /\ statusOK'[j]
    /\ statusMessage'[j] = statusMessage[j]
    /\ statusAge'[j] = statusAge[j]

(* C14 as stated: a status field is written by job.status only, so a job   *)
(* on which job.status has never run still has the zero value of statusOK. *)
OnlyStatusUpdateWrites ==
    \A j \in Jobs : statusOK[j] => hist[j].updated

(* C14, amended: the status fields are written by job.status between Lock  *)
(* and Unlock, or by main's line 71, which sets statusOK alone before the  *)
(* job's loop is started and before the endpoint is served; the endpoint   *)
(* reads a job's fields only while it holds that job's lock, and the lock  *)
(* has one holder at a time.                                               *)
StatusWrites ==
    /\ [](\A j \in Jobs :
            /\ pc[j] = "locked" <=> mu[j] = "mirror"
            /\ (req.pc \in {"checking", "rendering"} /\ req.i = j) <=> mu[j] = "statusz")
    /\ [][\A j \in Jobs : Written(j) => UpdateWrite(j) \/ InitialWrite(j)]_vars

StatusWritesWitness ==
    \E j \in Jobs :
        /\ hist[j].updated /\ ~statusOK[j]
        /\ req.pc = "rendering" /\ req.i = j
        /\ \E k \in Jobs : k # j /\ pc[k] = "locked"

----------------------------------------------------------------------------
(* C15: the locks are held for the status fields only *)

(* The loop's positions where it runs a git command, removes the working  *)
(* directory, sleeps before a retry or waits on the rate limiter.         *)
Blocking ==
    {"clone", "cloneFailed", "cloneSleep", "remoteAdd", "remoteSleep",
     "wait", "pull", "readHead", "push", "pushTags"}

InRequest == req.pc \notin {"idle", "done"}

----------------------------------------------------------------------------
(* Resolved values (SpecResolve) *)

(* C16: a job whose mirror loop is started has a non-empty From and a      *)
(* non-empty To, the values the loop uses, whatever the metadata server    *)
(* answered.                                                               *)
ResolvedNonEmpty ==
    \A j \in Jobs : Started(j) => jobs[j].From # << >> /\ jobs[j].To # << >>

----------------------------------------------------------------------------
(* Working directories (Spec) *)

(* The loop's positions whose next step acts on the working directory:     *)
(* clone into it, remove it, add a remote or pull in it, read its HEAD,    *)
(* push from it.                                                           *)
DirOps ==
    {"clone", "cloneFailed", "remoteAdd", "pull", "readHead", "push", "pushTags"}

(* C17: once the whole list has passed the validation of main, no two      *)
(* loops are about to act on the same working directory.                   *)
OwnDirectory ==
    mainpc = "serve" =>
        \A i, j \in Jobs :
            i # j /\ pc[i] \in DirOps /\ pc[j] \in DirOps
                => Dir(jobs[i]) # Dir(jobs[j])

----------------------------------------------------------------------------
(* The published message (SpecMirror) *)

(* The string literals of the source that are passed as msg to j.ok and    *)
(* j.statusErr.                                                            *)
PhaseLabels ==
    {MsgCloning, MsgCloned, MsgSettingRemote, MsgAddedRemote, MsgAddingRemote,
     MsgPull, MsgParseHead, MsgNothing, MsgPush, MsgPushTags, MsgPushed}

(* C18: the message of a job is the zero value or exactly one of the fixed *)
(* labels; nothing read from the working directory is part of it.          *)
MessageIsLabel ==
    \A j \in Jobs : statusMessage[j] = << >> \/ statusMessage[j] \in PhaseLabels

----------------------------------------------------------------------------
(* One response (SpecStatusz) *)

(* C19: a response that is complete and has status 200 has rendered no job *)
(* block with OK false.                                                    *)
ResponseConsistent ==
    req.pc = "done" /\ req.hdr = 200 => ~req.nok

----------------------------------------------------------------------------
(* What "nothing to push" stands for (SpecMirror) *)

(* The job's most recent push of the branches and its most recent push of  *)
(* the tags both succeeded and were made for the HEAD value h.             *)
PushedFor(j, h) ==
    /\ hist[j].branch = [ok |-> TRUE, sha |-> h]
    /\ hist[j].tags = [ok |-> TRUE, sha |-> h]

(* C20: when a job publishes "Synced - nothing to push", its most recent   *)
(* branch push and tag push succeeded and were made for the HEAD it has    *)
(* read.                                                                   *)
NothingMeansPushed ==
    \A j \in Jobs : NothingCall(j) => PushedFor(j, sha[j])

====
